---- MODULE Spec2Model ----
(***************************************************************************)
(* Model of annotation_matcher.py: the funnel that matches manually        *)
(* annotated waggle runs against the detections of the WDD pipeline.       *)
(*                                                                         *)
(* Time.  A datetime.datetime / datetime.timedelta is an integer number of *)
(* microseconds (the resolution of the type).  A pandas Timestamp, which   *)
(* pd.to_datetime produces, carries a nanosecond field on top of the       *)
(* datetime fields: [us |-> microseconds, nanosecond |-> 0..999].          *)
(***************************************************************************)
EXTENDS Integers, Sequences, FiniteSets, TLC

\* pc is the position of the program; call and ret are the arguments and the
\* result of a function exercised on its own; the rest is the state of main().
VARIABLES pc, call, ret,
          args, tunnel_bees_df, disk,
          video_names, cut_video_rel_path, manually_annotated_rows, video_fps,
          frame_offset, candidates_after_timestamp_check,
          candidates_after_tagged_waggle_check, candidates_after_coordinate_check,
          results, stdout, raised, output

inputVars == <<args, tunnel_bees_df, disk>>
loopVars == <<video_names, cut_video_rel_path, manually_annotated_rows, video_fps>>
stageVars == <<frame_offset, candidates_after_timestamp_check,
               candidates_after_tagged_waggle_check, candidates_after_coordinate_check>>
outVars == <<results, stdout, raised, output>>
mainVars == <<inputVars, loopVars, stageVars, outVars>>
vars == <<pc, call, ret, mainVars>>

\* main() is not running: a single function is exercised.
MainIdle ==
    /\ args = <<>> /\ tunnel_bees_df = <<>> /\ disk = <<>>
    /\ video_names = <<>> /\ cut_video_rel_path = <<>>
    /\ manually_annotated_rows = <<>> /\ video_fps = 0
    /\ frame_offset = 0 /\ candidates_after_timestamp_check = <<>>
    /\ candidates_after_tagged_waggle_check = <<>>
    /\ candidates_after_coordinate_check = <<>>
    /\ results = <<>> /\ stdout = <<>> /\ raised = "None" /\ output = <<>>

\* None as an exception slot or a plain value; as the timestamp a loop has not
\* found; and as the marker set a lookup did not find (a found marker set is
\* Markers(coords)).
None == "None"
NoTimestamp == [none |-> TRUE]
NoMarkers == [none |-> TRUE]
Markers(coords) == [none |-> FALSE, coords |-> coords]
NA == "NA"

US_PER_SECOND == 1000000
HD_CAM_FPS == 15

Abs(n) == IF n < 0 THEN -n ELSE n

Range(s) == {s[i] : i \in 1..Len(s)}

RECURSIVE SeqsUpTo(_, _)
SeqsUpTo(S, n) ==
    IF n = 0 THEN {<<>>}
    ELSE LET shorter == SeqsUpTo(S, n - 1)
         IN shorter \cup {Append(s, x) : s \in {t \in shorter : Len(t) = n - 1}, x \in S}

(***************************************************************************)
(* Time arithmetic                                                         *)
(***************************************************************************)
Timestamp(us, ns) == [us |-> us, nanosecond |-> ns]

\* pandas compares a Timestamp with a datetime at nanosecond precision.
TimestampGe(ts, dt) == ts.us >= dt
TimestampLe(ts, dt) == ts.us < dt \/ (ts.us = dt /\ ts.nanosecond = 0)

\* datetime.timedelta(seconds=num / den): the float number of seconds is
\* rounded to the nearest microsecond, ties to even.
timedelta_seconds(num, den) ==
    LET scaled == num * US_PER_SECOND
        q == scaled \div den
        rem == scaled % den
    IN IF 2 * rem < den THEN q
       ELSE IF 2 * rem > den THEN q + 1
       ELSE IF q % 2 = 0 THEN q ELSE q + 1

(***************************************************************************)
(* Temporal Filter                                                         *)
(***************************************************************************)
filtered_by_timestamp_exclusive(candidates, video_starttime, delta, start_frame, fps) ==
    LET waggle_timestamp == video_starttime + timedelta_seconds(start_frame, fps)
        start_time == waggle_timestamp - delta
        end_time == waggle_timestamp + delta
        InWindow(c) == /\ TimestampGe(c.timestamp_begin, start_time)
                       /\ c.timestamp_begin.us < end_time
    IN SelectSeq(candidates, InWindow)

filtered_by_timestamp(candidates, video_starttime, delta, start_frame, fps) ==
    LET time_elapsed_until_waggle == timedelta_seconds(start_frame, fps)
        waggle_timestamp == video_starttime + time_elapsed_until_waggle
        start_time == waggle_timestamp - delta
        end_time == waggle_timestamp + delta
        InWindow(c) == /\ TimestampGe(c.timestamp_begin, start_time)
                       /\ TimestampLe(c.timestamp_begin, end_time)
    IN SelectSeq(candidates, InWindow)

\* Bounds and input sets of the temporal-filter specification.
MaxCandidates == 2
HalfSecond == 500000
StartTimes == {0, 1000000}
StartFrames == {1, 2, 150}
FrameRates == {3, HD_CAM_FPS, 128}
Tolerances == {0, HalfSecond}
\* Offsets from the video start, chosen on and next to the window boundaries
\* the frame/rate/tolerance combinations above produce.
BeginOffsets ==
    { Timestamp(7812, 0), Timestamp(7813, 0),
      Timestamp(666666, 0), Timestamp(666667, 0), Timestamp(666667, 1),
      Timestamp(9500000, 0), Timestamp(9499999, 999),
      Timestamp(10000000, 0),
      Timestamp(10500000, 0), Timestamp(10500000, 1), Timestamp(10600000, 0) }

Candidate(id, ts, roi) == [waggle_id |-> id, timestamp_begin |-> ts, roi_center |-> roi]

TemporalCalls ==
    { [fn |-> "filtered_by_timestamp",
       candidates |-> [i \in 1..Len(offs) |->
                          Candidate("w", Timestamp(t0 + offs[i].us, offs[i].nanosecond), <<0, 0>>)],
       video_starttime |-> t0, delta |-> d, start_frame |-> f, video_fps |-> r]
      : offs \in SeqsUpTo(BeginOffsets, MaxCandidates),
        t0 \in StartTimes, d \in Tolerances, f \in StartFrames, r \in FrameRates }

InitTemporal ==
    /\ pc = "call"
    /\ call \in TemporalCalls
    /\ ret = None
    /\ MainIdle

Call_filtered_by_timestamp ==
    /\ pc = "call"
    /\ call.fn = "filtered_by_timestamp"
    /\ ret' = filtered_by_timestamp(call.candidates, call.video_starttime, call.delta,
                                    call.start_frame, call.video_fps)
    /\ pc' = "return"
    /\ UNCHANGED <<call, mainVars>>

NextTemporal == Call_filtered_by_timestamp

SpecTemporal == InitTemporal /\ [][NextTemporal]_vars

(***************************************************************************)
(* C1 -- Temporal Filter                                                   *)
(***************************************************************************)
\* t >= T0 + f/r - d and t <= T0 + f/r + d over the rationals, t in
\* microseconds plus nanoseconds, f/r in seconds.
ExactlyInWindow(c, t0, d, f, r) ==
    LET S == f * US_PER_SECOND
        lowGap == S - (c.timestamp_begin.us - t0 + d) * r
        highGap == S - (c.timestamp_begin.us - t0 - d) * r
        ns == c.timestamp_begin.nanosecond
    IN /\ \/ lowGap <= 0
          \/ (lowGap < r /\ 1000 * lowGap <= ns * r)
       /\ \/ highGap >= r
          \/ (highGap >= 0 /\ ns * r <= 1000 * highGap)

\* E is f/r seconds rounded to the nearest microsecond (a tie goes to the even one).
IsNearestMicrosecond(E, f, r) ==
    LET off == Abs(E * r - f * US_PER_SECOND)
    IN /\ 2 * off <= r
       /\ 2 * off = r => E % 2 = 0

InRoundedWindow(c, t0, d, f, r) ==
    \E E \in {(f * US_PER_SECOND) \div r, (f * US_PER_SECOND) \div r + 1} :
        /\ IsNearestMicrosecond(E, f, r)
        /\ c.timestamp_begin.us >= t0 + E - d
        /\ \/ c.timestamp_begin.us < t0 + E + d
           \/ (c.timestamp_begin.us = t0 + E + d /\ c.timestamp_begin.nanosecond = 0)

TemporalReturned == pc = "return" /\ call.fn = "filtered_by_timestamp"

\* C1 (as claimed): the result is exactly the candidates whose begin timestamp
\* t satisfies expected - d <= t <= expected + d with expected = T0 + f/r.
C1_ExactWindow ==
    TemporalReturned =>
        LET Keep(c) == ExactlyInWindow(c, call.video_starttime, call.delta,
                                       call.start_frame, call.video_fps)
        IN ret = SelectSeq(call.candidates, Keep)

\* C1 (amended): the result is exactly the candidates, in their order, whose
\* begin timestamp lies in [expected - d, expected + d] inclusive, where
\* expected = T0 + f/r rounded to the nearest microsecond; at 150 frames and
\* 15 fps with a tolerance of 0.5 s a candidate at T0 + 10.0 s is kept and one
\* at T0 + 10.6 s is dropped.
C1_RoundedWindow ==
    TemporalReturned =>
        LET Keep(c) == InRoundedWindow(c, call.video_starttime, call.delta,
                                       call.start_frame, call.video_fps)
            t0 == call.video_starttime
        IN /\ ret = SelectSeq(call.candidates, Keep)
           /\ (call.start_frame = 150 /\ call.video_fps = HD_CAM_FPS /\ call.delta = HalfSecond) =>
                 \A i \in 1..Len(call.candidates) :
                    LET c == call.candidates[i]
                    IN /\ c.timestamp_begin = Timestamp(t0 + 10000000, 0) => c \in Range(ret)
                       /\ c.timestamp_begin = Timestamp(t0 + 10600000, 0) => c \notin Range(ret)

\* A candidate exactly on the upper boundary is kept and one a nanosecond
\* later is dropped, in the 150 frames / 15 fps / 0.5 s scenario.
C1_Witness ==
    /\ TemporalReturned
    /\ call.start_frame = 150 /\ call.video_fps = HD_CAM_FPS /\ call.delta = HalfSecond
    /\ Len(call.candidates) = 2
    /\ call.candidates[1].timestamp_begin = Timestamp(call.video_starttime + 10500000, 0)
    /\ call.candidates[2].timestamp_begin = Timestamp(call.video_starttime + 10500000, 1)
    /\ ret = <<call.candidates[1]>>

(***************************************************************************)
(* Label Filter                                                            *)
(***************************************************************************)
isna(v) == v = NA

\* df is the label record of one candidate (csv_row, index reset); df[1] is
\* df.at[0, ...].  The uncorrected columns are never null in data.csv.
is_tagged(df) ==
    \/ (df[1].category_label = "tagged" /\ isna(df[1].corrected_category_label))
    \/ (~isna(df[1].corrected_category_label) /\ df[1].corrected_category_label = "tagged")

is_waggle_ignoring_correction(df) == df[1].dance_type = "waggle"

is_waggle(df) ==
    \/ (df[1].dance_type = "waggle" /\ isna(df[1].corrected_dance_type))
    \/ (~isna(df[1].corrected_dance_type) /\ df[1].corrected_dance_type = "waggle")

RECURSIVE tagged_waggle_loop_unchecked(_, _, _, _)
tagged_waggle_loop_unchecked(candidates, csv_df, kept, printed) ==
    IF candidates = <<>>
    THEN [candidates |-> kept, stdout |-> printed, raised |-> None]
    ELSE LET candidate == Head(candidates)
             HasId(row) == row.waggle_id = candidate.waggle_id
             csv_row == SelectSeq(csv_df, HasId)
         IN IF Len(csv_row) = 0
            THEN tagged_waggle_loop_unchecked(Tail(candidates), csv_df, kept, printed)
            ELSE IF is_tagged(csv_row) /\ is_waggle(csv_row)
            THEN tagged_waggle_loop_unchecked(Tail(candidates), csv_df,
                                              Append(kept, candidate), printed)
            ELSE tagged_waggle_loop_unchecked(Tail(candidates), csv_df, kept,
                     Append(printed, <<"dropped", candidate.waggle_id, FALSE>>))

\* main, lines 160-173: the loop over the temporally surviving candidates.
\* The result holds the kept candidates, the lines printed, and the exception
\* that ended the loop (None when it ran to its end).
RECURSIVE tagged_waggle_loop(_, _, _, _)
tagged_waggle_loop(candidates, csv_df, kept, printed) ==
    IF candidates = <<>>
    THEN [candidates |-> kept, stdout |-> printed, raised |-> None]
    ELSE LET candidate == Head(candidates)
             HasId(row) == row.waggle_id = candidate.waggle_id
             csv_row == SelectSeq(csv_df, HasId)
         IN IF ~(Len(csv_row) <= 1)
            THEN [candidates |-> kept, stdout |-> printed, raised |-> "AssertionError"]
            ELSE IF Len(csv_row) = 0
            THEN tagged_waggle_loop(Tail(candidates), csv_df, kept, printed)
            ELSE IF is_tagged(csv_row) /\ is_waggle(csv_row)
            THEN tagged_waggle_loop(Tail(candidates), csv_df, Append(kept, candidate), printed)
            ELSE tagged_waggle_loop(Tail(candidates), csv_df, kept,
                     printed \o << <<"tagged", candidate.waggle_id, is_tagged(csv_row)>>,
                                   <<"waggle", candidate.waggle_id, is_waggle(csv_row)>> >>)

tagged_waggle_check(candidates, csv_df) ==
    tagged_waggle_loop(candidates, csv_df, <<>>, <<>>)

MaxLabelRows == 2
WaggleIds == {"w1", "w2"}
LabelRecord(id, cat, ccat, dt, cdt) ==
    [waggle_id |-> id, category_label |-> cat, corrected_category_label |-> ccat,
     dance_type |-> dt, corrected_dance_type |-> cdt]
TagValues == {<<cat, ccat>> : cat \in {"tagged", "untagged"}, ccat \in {NA, "tagged", "untagged"}}
DanceValues == {<<dt, cdt>> : dt \in {"waggle", "other"}, cdt \in {NA, "waggle", "other"}}
Uncorrected(v) == v[2] = NA
\* For w1: every (original, corrected) pair of one attribute against an
\* uncorrected other attribute, and the records corrected in both attributes
\* whose tag correction changes the tag; for w2: an uncorrected record of
\* either outcome.
LabelRecords ==
    {LabelRecord("w1", t[1], t[2], d[1], d[2]) :
        <<t, d>> \in {v \in TagValues \X DanceValues :
                        Uncorrected(v[1]) \/ Uncorrected(v[2]) \/ v[1][1] # v[1][2]}}
    \cup {LabelRecord("w2", cat, NA, "waggle", NA) : cat \in {"tagged", "untagged"}}

\* Candidate identifiers are unique within a candidate table.
UniqueIds(cands) ==
    \A i, j \in 1..Len(cands) : cands[i].waggle_id = cands[j].waggle_id => i = j

LabelCalls ==
    { [fn |-> "tagged_waggle_check",
       candidates |-> [i \in 1..Len(ids) |-> Candidate(ids[i], Timestamp(0, 0), <<0, 0>>)],
       csv_df |-> table]
      : ids \in {q \in SeqsUpTo(WaggleIds, MaxCandidates) :
                    \A i, j \in 1..Len(q) : q[i] = q[j] => i = j},
        table \in SeqsUpTo(LabelRecords, MaxLabelRows) }

InitLabel ==
    /\ pc = "call"
    /\ call \in LabelCalls
    /\ ret = None
    /\ MainIdle

Call_tagged_waggle_check ==
    /\ pc = "call"
    /\ call.fn = "tagged_waggle_check"
    /\ ret' = tagged_waggle_check(call.candidates, call.csv_df)
    /\ pc' = "return"
    /\ UNCHANGED <<call, mainVars>>

NextLabel == Call_tagged_waggle_check

SpecLabel == InitLabel /\ [][NextLabel]_vars

(***************************************************************************)
(* C2 -- Label Filter                                                      *)
(***************************************************************************)
LabelReturned == pc = "return" /\ call.fn = "tagged_waggle_check"

EffectiveValue(original, corrected) == IF corrected # NA THEN corrected ELSE original

RecordsOf(table, id) == {i \in 1..Len(table) : table[i].waggle_id = id}

PassesOverride(rec) ==
    /\ EffectiveValue(rec.category_label, rec.corrected_category_label) = "tagged"
    /\ EffectiveValue(rec.dance_type, rec.corrected_dance_type) = "waggle"

\* C2: when the loop runs to its end, a candidate is kept iff it has a label
\* record whose effective tag status is "tagged" and whose effective dance
\* type is "waggle" (effective = corrected when non-null, else original); a
\* candidate without a record is dropped and nothing is printed for it; a
\* candidate that fails the rule is dropped and reported; no error is raised.
C2_LabelFilter ==
    (LabelReturned /\ ret.raised = None) =>
        /\ LET Keep(c) == \E i \in RecordsOf(call.csv_df, c.waggle_id) :
                              PassesOverride(call.csv_df[i])
           IN ret.candidates = SelectSeq(call.candidates, Keep)
        /\ \A k \in 1..Len(call.candidates) :
              LET id == call.candidates[k].waggle_id
                  reported == \E n \in 1..Len(ret.stdout) : ret.stdout[n][2] = id
              IN /\ RecordsOf(call.csv_df, id) = {} => ~reported
                 /\ (\E i \in RecordsOf(call.csv_df, id) : ~PassesOverride(call.csv_df[i]))
                       => reported

\* Both candidates have one record: w1 is untagged but corrected to tagged and
\* is kept; w2 is untagged, uncorrected, and is dropped with a report.
C2_Witness ==
    /\ LabelReturned /\ ret.raised = None
    /\ Len(call.candidates) = 2 /\ call.candidates[1].waggle_id = "w1"
    /\ call.csv_df = << LabelRecord("w1", "untagged", "tagged", "waggle", NA),
                        LabelRecord("w2", "untagged", NA, "waggle", NA) >>
    /\ ret.candidates = << call.candidates[1] >>
    /\ ret.stdout # <<>>

(***************************************************************************)
(* Marker selection, coordinate transform, Spatial Filter                  *)
(***************************************************************************)
FRAME_HEIGHT == 4608
PADDING_OFFSET == 125
MIN_MARKERS == 3

\* datetime.datetime.isoformat(ts) of a pandas Timestamp formats the datetime
\* fields only: the nanosecond field is dropped.  An ISO string is modelled
\* by the number of microseconds it denotes.
datetime_isoformat(ts) == ts.us
datetime_fromisoformat(str) == str

TimestampLt(a, b) == a.us < b.us \/ (a.us = b.us /\ a.nanosecond < b.nanosecond)

\* sorted(df_markers["timestamp"].unique())
RECURSIVE sorted(_)
sorted(S) ==
    IF S = {} THEN <<>>
    ELSE LET least == CHOOSE m \in S : \A o \in S \ {m} : TimestampLt(m, o)
         IN <<least>> \o sorted(S \ {least})

\* The loop of lines 414-416 over the sorted marker timestamps.
RECURSIVE marker_loop(_, _, _)
marker_loop(marker_timestamps, detection, timestamp_to_show) ==
    IF marker_timestamps = <<>> THEN timestamp_to_show
    ELSE marker_loop(Tail(marker_timestamps), detection,
                     IF TimestampLe(Head(marker_timestamps), detection)
                     THEN Head(marker_timestamps) ELSE timestamp_to_show)

RECURSIVE first_marker_loop(_, _, _)
first_marker_loop(marker_timestamps, detection, timestamp_to_show) ==
    IF marker_timestamps = <<>> THEN timestamp_to_show
    ELSE IF TimestampLe(Head(marker_timestamps), detection)
    THEN Head(marker_timestamps)
    ELSE first_marker_loop(Tail(marker_timestamps), detection, timestamp_to_show)

marker_coords_of(df_markers, timestamp_to_show) ==
    IF timestamp_to_show = NoTimestamp THEN NoMarkers
    ELSE LET Shown(row) == row.timestamp = timestamp_to_show
             dfsel == SelectSeq(df_markers, Shown)
         IN Markers([i \in 1..Len(dfsel) |-> <<dfsel[i].x, dfsel[i].y>>])

get_marker_coordinates_by_timestamp_earliest(detection_timestamp, df_markers) ==
    marker_coords_of(df_markers,
        first_marker_loop(sorted({df_markers[i].timestamp : i \in 1..Len(df_markers)}),
                          datetime_fromisoformat(detection_timestamp), NoTimestamp))

get_marker_coordinates_by_timestamp(detection_timestamp, df_markers) ==
    LET marker_timestamps == sorted({df_markers[i].timestamp : i \in 1..Len(df_markers)})
        timestamp_to_show == marker_loop(marker_timestamps,
                                         datetime_fromisoformat(detection_timestamp), NoTimestamp)
    IN marker_coords_of(df_markers, timestamp_to_show)

\* Twice the signed area of the triangle p, q, r.
Cross(p, q, r) == (q[1] - p[1]) * (r[2] - p[2]) - (r[1] - p[1]) * (q[2] - p[2])

Collinear(markers) ==
    \A i, j, k \in 1..Len(markers) : Cross(markers[i], markers[j], markers[k]) = 0

\* CoordinateTransformer(src_markers, dst_markers): the constructor fails on a
\* missing marker set, on lists of different length, on fewer than three
\* pairs and on collinear markers; otherwise it holds the fitted transform.
CoordinateTransformer(src_markers, dst_markers) ==
    IF src_markers.none \/ dst_markers.none
    THEN [raised |-> "InsufficientMarkers"]
    ELSE IF Len(src_markers.coords) # Len(dst_markers.coords)
    THEN [raised |-> "MarkerCountMismatch"]
    ELSE IF Len(src_markers.coords) < MIN_MARKERS
    THEN [raised |-> "InsufficientMarkers"]
    ELSE IF Collinear(src_markers.coords)
    THEN [raised |-> "DegenerateMarkers"]
    ELSE [raised |-> None, src |-> src_markers.coords, dst |-> dst_markers.coords]

\* The fitted affine map, applied to (x, y).  When an affine map takes every
\* source marker onto its destination marker, the least-squares fit is that
\* map; it is fixed by the first three non-collinear pairs.
transform_coordinates(converter, x, y) ==
    LET n == Len(converter.src)
        t == CHOOSE t \in (1..n) \X (1..n) \X (1..n) :
                /\ t[1] < t[2] /\ t[2] < t[3]
                /\ Cross(converter.src[t[1]], converter.src[t[2]], converter.src[t[3]]) # 0
                /\ \A o \in (1..n) \X (1..n) \X (1..n) :
                      (/\ o[1] < o[2] /\ o[2] < o[3]
                       /\ Cross(converter.src[o[1]], converter.src[o[2]], converter.src[o[3]]) # 0)
                      => \/ t[1] < o[1]
                         \/ (t[1] = o[1] /\ t[2] < o[2])
                         \/ (t[1] = o[1] /\ t[2] = o[2] /\ t[3] <= o[3])
        p1 == converter.src[t[1]]
        p2 == converter.src[t[2]]
        p3 == converter.src[t[3]]
        q1 == converter.dst[t[1]]
        q2 == converter.dst[t[2]]
        q3 == converter.dst[t[3]]
        det == Cross(p1, p2, p3)
        n2 == Cross(p1, <<x, y>>, p3)
        n3 == Cross(p1, p2, <<x, y>>)
    IN << q1[1] + (n2 * (q2[1] - q1[1]) + n3 * (q3[1] - q1[1])) \div det,
          q1[2] + (n2 * (q2[2] - q1[2]) + n3 * (q3[2] - q1[2])) \div det >>

unrotate(rotated_coordinates) ==
    LET rotated_x == rotated_coordinates[1]
        rotated_y == rotated_coordinates[2]
    IN <<rotated_y, FRAME_HEIGHT - rotated_x>>

fix_padding_error_x_only(coordinates) == <<coordinates[1] + PADDING_OFFSET, coordinates[2]>>

fix_padding_error(coordinates) ==
    <<coordinates[1] + PADDING_OFFSET, coordinates[2] + PADDING_OFFSET>>

is_adjacent_euclidean(coordinates1, coordinates2, coordinate_tolerance) ==
    (coordinates1[1] - coordinates2[1]) * (coordinates1[1] - coordinates2[1])
      + (coordinates1[2] - coordinates2[2]) * (coordinates1[2] - coordinates2[2])
    <= coordinate_tolerance * coordinate_tolerance

is_adjacent(coordinates1, coordinates2, coordinate_tolerance) ==
    /\ Abs(coordinates1[1] - coordinates2[1]) <= coordinate_tolerance
    /\ Abs(coordinates1[2] - coordinates2[2]) <= coordinate_tolerance

\* The result records, next to the returned boolean, the marker sets looked
\* up, the position handed to the transformer and the two positions compared;
\* raised names the exception that left the function, if any.
is_matching_coordinates(automatically_annotated_data, manually_annotated_data, df_markers_hd, df_markers_wdd, coordinate_tolerance, fix_padding_flag, undo_rotation) ==
    LET detection == datetime_isoformat(automatically_annotated_data.timestamp_begin)
        wdd_markers == get_marker_coordinates_by_timestamp(detection, df_markers_wdd)
        hd_markers == get_marker_coordinates_by_timestamp(detection, df_markers_hd)
        converter == CoordinateTransformer(hd_markers, wdd_markers)
        hd == <<manually_annotated_data.waggle_start_positions_x,
                manually_annotated_data.waggle_start_positions_y>>
        xy_hd == IF undo_rotation THEN unrotate(hd) ELSE hd
        roi == automatically_annotated_data.roi_center
        xy == IF fix_padding_flag THEN fix_padding_error(roi) ELSE roi
    IN IF converter.raised # None
       THEN [raised |-> converter.raised, wdd_markers |-> wdd_markers,
             hd_markers |-> hd_markers, transform_input |-> <<>>,
             coordinates1 |-> <<>>, coordinates2 |-> <<>>, result |-> FALSE]
       ELSE LET xy_wdd == transform_coordinates(converter, xy_hd[1], xy_hd[2])
            IN [raised |-> None, wdd_markers |-> wdd_markers, hd_markers |-> hd_markers,
                transform_input |-> xy_hd, coordinates1 |-> xy_wdd, coordinates2 |-> xy,
                result |-> is_adjacent(xy_wdd, xy, coordinate_tolerance)]

\* main, lines 178-189: the comprehension over the label survivors.  The call
\* passes fix_padding_flag and leaves undo_rotation at its default, False.
RECURSIVE coordinate_loop(_, _, _, _, _, _, _)
coordinate_loop(candidates, manually_annotated_row, df_markers_hd, df_markers_wdd, argv, kept, calls) ==
    IF candidates = <<>>
    THEN [candidates |-> kept, calls |-> calls, raised |-> None]
    ELSE LET candidate == Head(candidates)
             m == is_matching_coordinates(candidate, manually_annotated_row,
                                          df_markers_hd, df_markers_wdd,
                                          argv.coordinate_tolerance,
                                          argv.fix_padding_flag, FALSE)
         IN IF m.raised # None
            THEN [candidates |-> kept, calls |-> Append(calls, m), raised |-> m.raised]
            ELSE coordinate_loop(Tail(candidates), manually_annotated_row,
                                 df_markers_hd, df_markers_wdd, argv,
                                 IF m.result THEN Append(kept, candidate) ELSE kept,
                                 Append(calls, m))

coordinate_check(candidates, manually_annotated_row, df_markers_hd, df_markers_wdd, argv) ==
    coordinate_loop(candidates, manually_annotated_row, df_markers_hd, df_markers_wdd,
                    argv, <<>>, <<>>)

\* Bounds and input sets of the spatial specification.
MaxCoord == 3
MaxTolerance == 2
MaxMarkerRows == 3
DEFAULT_COORDINATE_TOLERANCE == 100

MarkerRow(ts, p) == [timestamp |-> ts, x |-> p[1], y |-> p[2]]
MarkerSet(ts, points, shift) ==
    [i \in 1..Len(points) |-> MarkerRow(ts, <<points[i][1] + shift[1], points[i][2] + shift[2]>>)]

AdjacentCalls ==
    { [fn |-> "is_adjacent", coordinates1 |-> <<x1, y1>>, coordinates2 |-> <<x2, y2>>,
       coordinate_tolerance |-> tol]
      : x1 \in 0..MaxCoord, y1 \in 0..MaxCoord, x2 \in 0..MaxCoord, y2 \in 0..MaxCoord,
        tol \in 0..MaxTolerance }

MarkerTimes == {Timestamp(10, 0), Timestamp(20, 0), Timestamp(20, 200), Timestamp(30, 0)}
MarkerPoints == {<<0, 0>>, <<100, 0>>}
DetectionTimes == {5, 10, 20, 25, 30}
MarkerCalls ==
    { [fn |-> "get_marker_coordinates_by_timestamp", detection_timestamp |-> t,
       df_markers |-> table]
      : t \in DetectionTimes,
        table \in SeqsUpTo({MarkerRow(ts, p) : ts \in MarkerTimes, p \in MarkerPoints},
                           MaxMarkerRows) }

Triangle == << <<0, 0>>, <<100, 0>>, <<0, 100>> >>
Interleave(a, b) == [i \in 1..(Len(a) + Len(b)) |->
                        IF i % 2 = 1 /\ (i + 1) \div 2 <= Len(a) /\ i \div 2 <= Len(b)
                        THEN a[(i + 1) \div 2]
                        ELSE IF i % 2 = 0 /\ i \div 2 <= Len(b) /\ i \div 2 <= Len(a)
                        THEN b[i \div 2]
                        ELSE IF i - Len(b) >= 1 /\ Len(a) > Len(b) THEN a[i - Len(b)]
                        ELSE b[i - Len(a)]]
\* Marker tables: one marker set before the detections; a second, shifted set
\* that is 200 ns newer than a detection's microsecond, rows interleaved;
\* only a set newer than every detection; a set of two markers.
HdTables ==
    { MarkerSet(Timestamp(10, 0), Triangle, <<0, 0>>),
      Interleave(MarkerSet(Timestamp(20, 200), Triangle, <<25, 25>>),
                 MarkerSet(Timestamp(10, 0), Triangle, <<0, 0>>)),
      MarkerSet(Timestamp(30, 0), Triangle, <<0, 0>>),
      MarkerSet(Timestamp(10, 0), SubSeq(Triangle, 1, 2), <<0, 0>>) }
WddTables ==
    { MarkerSet(Timestamp(10, 0), Triangle, <<0, 0>>),
      MarkerSet(Timestamp(10, 0), Triangle, <<0, 0>>)
         \o MarkerSet(Timestamp(20, 0), Triangle, <<-25, -25>>),
      MarkerSet(Timestamp(30, 0), Triangle, <<0, 0>>) }

ManualRow(video, index, frames, p) ==
    [video_name |-> video, waggle_index |-> index, waggle_start_frames |-> frames,
     waggle_start_positions_x |-> p[1], waggle_start_positions_y |-> p[2]]

IdAt == <<"w1", "w2", "w3", "w4">>
RoiCenters == {<<500, 500>>, <<475, 475>>, <<600, 600>>}
DetectionStamps == {Timestamp(20, 0), Timestamp(20, 500)}
ManualPositions == {<<600, 600>>, <<4008, 600>>}
Args(dt, tol, pad, rot) ==
    [time_tolerance |-> dt, coordinate_tolerance |-> tol, fix_padding_flag |-> pad,
     undo_rotation |-> rot]

CoordinateCalls ==
    { [fn |-> "coordinate_check",
       candidates |-> [i \in 1..Len(kinds) |-> Candidate(IdAt[i], kinds[i][1], kinds[i][2])],
       manually_annotated_row |-> ManualRow("v", 0, 0, p),
       df_markers_hd |-> hd, df_markers_wdd |-> wdd,
       args |-> Args(HalfSecond, tol, pad, rot)]
      : kinds \in SeqsUpTo(DetectionStamps \X RoiCenters, MaxCandidates),
        p \in ManualPositions, hd \in HdTables, wdd \in WddTables,
        tol \in {0, DEFAULT_COORDINATE_TOLERANCE}, pad \in BOOLEAN, rot \in BOOLEAN }

InitSpatial ==
    /\ pc = "call"
    /\ call \in AdjacentCalls \cup MarkerCalls \cup CoordinateCalls
    /\ ret = None
    /\ MainIdle

Call_is_adjacent ==
    /\ pc = "call"
    /\ call.fn = "is_adjacent"
    /\ ret' = is_adjacent(call.coordinates1, call.coordinates2, call.coordinate_tolerance)
    /\ pc' = "return"
    /\ UNCHANGED <<call, mainVars>>

Call_get_marker_coordinates_by_timestamp ==
    /\ pc = "call"
    /\ call.fn = "get_marker_coordinates_by_timestamp"
    /\ ret' = get_marker_coordinates_by_timestamp(call.detection_timestamp, call.df_markers)
    /\ pc' = "return"
    /\ UNCHANGED <<call, mainVars>>

Call_coordinate_check ==
    /\ pc = "call"
    /\ call.fn = "coordinate_check"
    /\ ret' = coordinate_check(call.candidates, call.manually_annotated_row,
                               call.df_markers_hd, call.df_markers_wdd, call.args)
    /\ pc' = "return"
    /\ UNCHANGED <<call, mainVars>>

NextSpatial ==
    \/ Call_is_adjacent
    \/ Call_get_marker_coordinates_by_timestamp
    \/ Call_coordinate_check

SpecSpatial == InitSpatial /\ [][NextSpatial]_vars

(***************************************************************************)
(* C3, C4, C5, C10 -- Spatial Filter and marker selection                  *)
(***************************************************************************)
AdjacentReturned == pc = "return" /\ call.fn = "is_adjacent"
MarkerReturned == pc = "return" /\ call.fn = "get_marker_coordinates_by_timestamp"
CoordinateReturned == pc = "return" /\ call.fn = "coordinate_check"

Max(a, b) == IF a >= b THEN a ELSE b
Chebyshev(p, q) == Max(Abs(p[1] - q[1]), Abs(p[2] - q[2]))

\* C3: two points are adjacent iff |dx| <= tol and |dy| <= tol, i.e. iff their
\* Chebyshev distance is at most tol: points (tol, tol) apart are adjacent,
\* points (tol + 1, 0) apart are not; the Spatial Filter keeps exactly the
\* candidates whose comparison is adjacent.
C3_Chebyshev ==
    /\ AdjacentReturned =>
         LET dx == call.coordinates1[1] - call.coordinates2[1]
             dy == call.coordinates1[2] - call.coordinates2[2]
             tol == call.coordinate_tolerance
         IN /\ ret = (Chebyshev(call.coordinates1, call.coordinates2) <= tol)
            /\ (Abs(dx) = tol /\ Abs(dy) = tol) => ret = TRUE
            /\ (Abs(dx) = tol + 1 /\ dy = 0) => ret = FALSE
    /\ (CoordinateReturned /\ ret.raised = None) =>
         /\ Len(ret.calls) = Len(call.candidates)
         /\ \A k \in 1..Len(ret.calls) :
               ret.calls[k].result =
                  (Chebyshev(ret.calls[k].coordinates1, ret.calls[k].coordinates2)
                     <= call.args.coordinate_tolerance)
         /\ ret.candidates =
               LET idx == {k \in 1..Len(ret.calls) : ret.calls[k].result}
                   Kept(c) == \E k \in idx : call.candidates[k] = c
               IN SelectSeq(call.candidates, Kept)

\* Points (2, 2) apart at tolerance 2 are adjacent although their Euclidean
\* distance exceeds the tolerance.
C3_Witness ==
    /\ AdjacentReturned
    /\ call.coordinate_tolerance = 2
    /\ call.coordinates1 = <<0, 1>> /\ call.coordinates2 = <<2, 3>>
    /\ ret = TRUE

IsPaddingScenario(k) ==
    /\ call.candidates[k].roi_center = <<500, 500>>
    /\ ret.calls[k].coordinates1 = <<600, 600>>
    /\ call.args.coordinate_tolerance = DEFAULT_COORDINATE_TOLERANCE

ComparedPositionRule(k) ==
    LET roi == call.candidates[k].roi_center
    IN ret.calls[k].coordinates2 =
          IF call.args.fix_padding_flag THEN <<roi[1] + 125, roi[2] + 125>> ELSE roi

\* C4 (as claimed): the compared position is the ROI center shifted by
\* (+125, +125) with fix_padding and the ROI center without it; for ROI center
\* (500, 500), transformed manual point (600, 600) and tolerance 100 the
\* candidate is included with the fix and excluded without it.
C4_PaddingScenario ==
    CoordinateReturned =>
        \A k \in 1..Len(ret.calls) : ret.calls[k].raised = None =>
            /\ ComparedPositionRule(k)
            /\ IsPaddingScenario(k) => ret.calls[k].result = call.args.fix_padding_flag

\* C4 (amended): the compared position is the ROI center shifted by
\* (+125, +125) with fix_padding and the ROI center without it; for ROI center
\* (500, 500), transformed manual point (600, 600) and tolerance 100 the
\* candidate is included with the fix (compared position (625, 625)) and is
\* included without it as well (both differences equal the tolerance).
C4_PaddingFix ==
    CoordinateReturned =>
        \A k \in 1..Len(ret.calls) : ret.calls[k].raised = None =>
            /\ ComparedPositionRule(k)
            /\ IsPaddingScenario(k) =>
                  /\ ret.calls[k].result = TRUE
                  /\ call.args.fix_padding_flag => ret.calls[k].coordinates2 = <<625, 625>>
                  /\ ret.raised = None => call.candidates[k] \in Range(ret.candidates)

\* The scenario with the fix enabled: (625, 625) is compared and the candidate kept.
C4_Witness ==
    /\ CoordinateReturned /\ ret.raised = None
    /\ call.args.fix_padding_flag
    /\ Len(ret.calls) = 1 /\ IsPaddingScenario(1)
    /\ ret.calls[1].coordinates2 = <<625, 625>>
    /\ ret.candidates = call.candidates

\* C5: with undo_rotation enabled every spatial comparison of the orchestrator
\* hands (y, FRAME_HEIGHT - x) to the Coordinate Transformer in place of the
\* manual start position (x, y); with it disabled it hands over (x, y).
C5_UndoRotation ==
    CoordinateReturned =>
        \A k \in 1..Len(ret.calls) : ret.calls[k].raised = None =>
            LET x == call.manually_annotated_row.waggle_start_positions_x
                y == call.manually_annotated_row.waggle_start_positions_y
            IN ret.calls[k].transform_input =
                  IF call.args.undo_rotation THEN <<y, FRAME_HEIGHT - x>> ELSE <<x, y>>

\* The marker set of `table` that is valid at microsecond t: the rows, in table
\* order, stamped with the largest marker timestamp <= t; none without one.
AtOrBefore(ts, t) == ts.us < t \/ (ts.us = t /\ ts.nanosecond = 0)
ValidMarkerSet(table, t) ==
    LET eligible == {i \in 1..Len(table) : AtOrBefore(table[i].timestamp, t)}
    IN IF eligible = {} THEN NoMarkers
       ELSE LET newest == CHOOSE i \in eligible :
                              \A j \in eligible : ~TimestampLt(table[i].timestamp, table[j].timestamp)
                Newest(row) == row.timestamp = table[newest].timestamp
                rows == SelectSeq(table, Newest)
            IN Markers([i \in 1..Len(rows) |-> <<rows[i].x, rows[i].y>>])

\* C10: for every marker table, in any row order, and detection timestamp t
\* the returned marker set is exactly the rows stamped with the largest marker
\* timestamp <= t, and None iff every marker timestamp is > t; in a spatial
\* comparison the set of each coordinate system is the one its own table
\* gives for the detection timestamp, whatever the other table holds.
C10_MarkerSelection ==
    /\ MarkerReturned =>
         /\ ret = ValidMarkerSet(call.df_markers, call.detection_timestamp)
         /\ ret = NoMarkers <=> \A i \in 1..Len(call.df_markers) :
                              ~AtOrBefore(call.df_markers[i].timestamp, call.detection_timestamp)
    /\ CoordinateReturned =>
         \A k \in 1..Len(ret.calls) :
            LET t == call.candidates[k].timestamp_begin.us
            IN /\ ret.calls[k].wdd_markers = ValidMarkerSet(call.df_markers_wdd, t)
               /\ ret.calls[k].hd_markers = ValidMarkerSet(call.df_markers_hd, t)

\* Rows out of time order with two marker sets at or before t = 25 and one
\* after it: the set stamped 20 is returned.
C10_Witness ==
    /\ MarkerReturned
    /\ call.detection_timestamp = 25
    /\ call.df_markers = << MarkerRow(Timestamp(20, 0), <<100, 0>>),
                            MarkerRow(Timestamp(10, 0), <<0, 0>>),
                            MarkerRow(Timestamp(30, 0), <<0, 0>>) >>
    /\ ret = Markers(<< <<100, 0>> >>)

(***************************************************************************)
(* Frame Synchronizer                                                      *)
(***************************************************************************)
\* A video file: whether the path exists, whether cv2 can open it, the frames
\* it decodes to (a frame is modelled by a number: equal numbers are
\* pixel-identical frames) and the frame rate of its metadata.
Video(exists, opened, frames, fps) ==
    [exists |-> exists, opened |-> opened, frames |-> frames, fps |-> fps]

get_starting_frame(video) ==
    IF ~video.opened THEN [raised |-> "Unable to open", frame |-> 0]
    ELSE IF video.frames = <<>> THEN [raised |-> "No frame in", frame |-> 0]
    ELSE [raised |-> None, frame |-> video.frames[1]]

\* The scan of lines 376-383; frames_read counts the frames decoded from the
\* original video.
RECURSIVE frame_scan(_, _, _)
frame_scan(frames, cut_hd_video_starting_frame, frame_index) ==
    IF frame_index >= Len(frames)
    THEN [match_found |-> FALSE, frame_index |-> frame_index, frames_read |-> Len(frames)]
    ELSE IF frames[frame_index + 1] = cut_hd_video_starting_frame
    THEN [match_found |-> TRUE, frame_index |-> frame_index, frames_read |-> frame_index + 1]
    ELSE frame_scan(frames, cut_hd_video_starting_frame, frame_index + 1)

RECURSIVE frame_scan_to_end(_, _, _, _)
frame_scan_to_end(frames, target, frame_index, found) ==
    IF frame_index >= Len(frames) THEN found
    ELSE frame_scan_to_end(frames, target, frame_index + 1,
            IF frames[frame_index + 1] = target
            THEN [match_found |-> TRUE, frame_index |-> frame_index,
                  frames_read |-> Len(frames)]
            ELSE found)

get_first_matching_frame_index_last(original_video, cut_video) ==
    LET start == get_starting_frame(cut_video)
        scan == frame_scan_to_end(original_video.frames, start.frame, 0,
                    [match_found |-> FALSE, frame_index |-> Len(original_video.frames),
                     frames_read |-> Len(original_video.frames)])
    IN IF start.raised # None \/ ~original_video.opened \/ ~scan.match_found
       THEN [raised |-> "Exception", frame_index |-> 0, frames_read |-> 0]
       ELSE [raised |-> None, frame_index |-> scan.frame_index,
             frames_read |-> scan.frames_read]

get_first_matching_frame_index(original_video, cut_video) ==
    LET start == get_starting_frame(cut_video)
    IN IF start.raised # None
       THEN [raised |-> start.raised, frame_index |-> 0, frames_read |-> 0]
       ELSE IF ~original_video.opened
       THEN [raised |-> "Unable to open", frame_index |-> 0, frames_read |-> 0]
       ELSE LET scan == frame_scan(original_video.frames, start.frame, 0)
            IN IF scan.match_found
               THEN [raised |-> None, frame_index |-> scan.frame_index,
                     frames_read |-> scan.frames_read]
               ELSE [raised |-> "Unable to find matching frame", frame_index |-> 0,
                     frames_read |-> scan.frames_read]

MaxFrames == 4
MaxCutFrames == 2
FrameImages == {1, 2, 3}
Unopenable == Video(TRUE, FALSE, <<>>, 0)

SyncCalls ==
    { [fn |-> "get_first_matching_frame_index", original_video |-> o, cut_video |-> c]
      : o \in {Unopenable}
              \cup {Video(TRUE, TRUE, f, HD_CAM_FPS) : f \in SeqsUpTo(FrameImages, MaxFrames)},
        c \in {Unopenable}
              \cup {Video(TRUE, TRUE, f, HD_CAM_FPS) : f \in SeqsUpTo(FrameImages, MaxCutFrames)} }

InitSync ==
    /\ pc = "call"
    /\ call \in SyncCalls
    /\ ret = None
    /\ MainIdle

Call_get_first_matching_frame_index ==
    /\ pc = "call"
    /\ call.fn = "get_first_matching_frame_index"
    /\ ret' = get_first_matching_frame_index(call.original_video, call.cut_video)
    /\ pc' = "return"
    /\ UNCHANGED <<call, mainVars>>

NextSync == Call_get_first_matching_frame_index

SpecSync == InitSync /\ [][NextSync]_vars

(***************************************************************************)
(* C9 -- Frame Synchronizer                                                *)
(***************************************************************************)
SyncReturned == pc = "return" /\ call.fn = "get_first_matching_frame_index"

\* C9: the result is the smallest 0-based index whose reference frame equals
\* the first frame of the trimmed video, and the scan read no frame after it;
\* without such a frame the scan ends at the end of the reference video and
\* an error is raised; an error is raised as well when either video cannot be
\* opened or the trimmed video has no frame.
C9_FirstMatchingFrame ==
    SyncReturned =>
        LET o == call.original_video
            c == call.cut_video
        IN IF ~c.opened \/ c.frames = <<>> \/ ~o.opened
           THEN ret.raised # None
           ELSE LET matches == {i \in 1..Len(o.frames) : o.frames[i] = c.frames[1]}
                IN IF matches = {}
                   THEN ret.raised # None /\ ret.frames_read = Len(o.frames)
                   ELSE /\ ret.raised = None
                        /\ ret.frame_index + 1 \in matches
                        /\ \A i \in matches : ret.frame_index + 1 <= i
                        /\ ret.frames_read = ret.frame_index + 1

\* The target frame occurs at indices 1 and 2 of the reference video: index 1
\* is returned after two frames were read.
C9_Witness ==
    /\ SyncReturned
    /\ call.original_video.frames = <<1, 2, 2>>
    /\ call.cut_video.opened /\ call.cut_video.frames = <<2, 3>>
    /\ ret.raised = None /\ ret.frame_index = 1 /\ ret.frames_read = 2

(***************************************************************************)
(* Matching Orchestrator: main()                                           *)
(***************************************************************************)
\* The name of a cut video, "cam-1_<start>--<end>_<clip>.mp4", by its parts;
\* lines 63-75 rebuild the name of the original video from the first two
\* parts and parse the start time of the recording out of it.
CutName(camera, start, clip) == [camera |-> camera, start |-> start, clip |-> clip]
original_video_name_of(cut_video_rel_path_str) ==
    [camera |-> cut_video_rel_path_str.camera, start |-> cut_video_rel_path_str.start]
timestamp_of(original_video_name) == original_video_name.start

\* tunnel_bees_df["video_name"].unique(): the names in order of first appearance.
RECURSIVE unique(_, _)
unique(names, seen) ==
    IF names = <<>> THEN seen
    ELSE unique(Tail(names),
                IF Head(names) \in Range(seen) THEN seen ELSE Append(seen, Head(names)))

get_video_fps(video) == IF video.fps > 0 THEN [raised |-> None, fps |-> video.fps]
                        ELSE [raised |-> "ValueError", fps |-> 0]

MatchRecord(manually_annotated_row, candidates) ==
    [manual_annotation |->
        [waggle_index |-> manually_annotated_row.waggle_index,
         waggle_start_position |-> <<manually_annotated_row.waggle_start_positions_x,
                                     manually_annotated_row.waggle_start_positions_y>>],
     candidates |-> [i \in 1..Len(candidates) |->
                        [waggle_id |-> candidates[i].waggle_id,
                         timestamp_begin |-> candidates[i].timestamp_begin,
                         roi_center |-> candidates[i].roi_center]]]

original_video_name == original_video_name_of(cut_video_rel_path)
manually_annotated_row == Head(manually_annotated_rows)

\* Lines 54-121: the next video of the outer loop, or its end.
NextVideo ==
    /\ pc = "video_loop"
    /\ IF video_names = <<>>
       THEN /\ pc' = "write_output"
            /\ UNCHANGED <<loopVars, results>>
       ELSE LET cut == Head(video_names)
                name == original_video_name_of(cut)
                original_video == disk.original_videos[name]
                fps == get_video_fps(original_video)
            IN /\ cut_video_rel_path' = cut
               /\ video_names' = Tail(video_names)
               /\ video_fps' = IF original_video.exists /\ fps.raised = None
                               THEN fps.fps ELSE HD_CAM_FPS
               /\ results' = [k \in DOMAIN results \cup {name} |->
                                 IF k = name THEN <<>> ELSE results[k]]
               /\ manually_annotated_rows' =
                     LET OfVideo(row) == row.video_name = cut
                     IN SelectSeq(tunnel_bees_df, OfVideo)
               /\ pc' = "row_loop"
    /\ UNCHANGED <<call, ret, inputVars, stageVars, stdout, raised, output>>

\* Lines 122-129: the next annotation of the video and its frame synchronisation.
FrameSync ==
    /\ pc = "row_loop"
    /\ IF manually_annotated_rows = <<>>
       THEN /\ pc' = "video_loop"
            /\ UNCHANGED <<manually_annotated_rows, frame_offset, stdout>>
       ELSE LET sync == get_first_matching_frame_index(
                            disk.original_videos[original_video_name],
                            disk.cut_videos[cut_video_rel_path])
            IN IF sync.raised # None
               THEN /\ stdout' = Append(stdout, <<sync.raised>>)
                    /\ manually_annotated_rows' = Tail(manually_annotated_rows)
                    /\ pc' = "row_loop"
                    /\ UNCHANGED frame_offset
               ELSE /\ frame_offset' = sync.frame_index
                    /\ pc' = "timestamp_check"
                    /\ UNCHANGED <<manually_annotated_rows, stdout>>
    /\ UNCHANGED <<call, ret, inputVars, video_names, cut_video_rel_path, video_fps,
                   candidates_after_timestamp_check, candidates_after_tagged_waggle_check,
                   candidates_after_coordinate_check, results, raised, output>>

\* Lines 131-141.
TimestampCheck ==
    /\ pc = "timestamp_check"
    /\ LET kept == filtered_by_timestamp(
                       disk.all_candidates, timestamp_of(original_video_name),
                       args.time_tolerance,
                       frame_offset + manually_annotated_row.waggle_start_frames, video_fps)
       IN /\ candidates_after_timestamp_check' = kept
          /\ IF Len(kept) = 0
             THEN /\ manually_annotated_rows' = Tail(manually_annotated_rows)
                  /\ pc' = "row_loop"
             ELSE /\ pc' = "tagged_waggle_check"
                  /\ UNCHANGED manually_annotated_rows
    /\ UNCHANGED <<call, ret, inputVars, video_names, cut_video_rel_path, video_fps,
                   frame_offset, candidates_after_tagged_waggle_check,
                   candidates_after_coordinate_check, outVars>>

\* Lines 143-173.
TaggedWaggleCheck ==
    /\ pc = "tagged_waggle_check"
    /\ LET check == tagged_waggle_check(candidates_after_timestamp_check, disk.csv_df)
       IN /\ stdout' = stdout \o check.stdout
          /\ IF check.raised # None
             THEN /\ raised' = check.raised
                  /\ pc' = "aborted"
                  /\ UNCHANGED candidates_after_tagged_waggle_check
             ELSE /\ candidates_after_tagged_waggle_check' = check.candidates
                  /\ pc' = "coordinate_check"
                  /\ UNCHANGED raised
    /\ UNCHANGED <<call, ret, inputVars, loopVars, frame_offset,
                   candidates_after_timestamp_check, candidates_after_coordinate_check,
                   results, output>>

\* Lines 175-189.
CoordinateCheck ==
    /\ pc = "coordinate_check"
    /\ LET check == coordinate_check(candidates_after_tagged_waggle_check,
                                     manually_annotated_row, disk.df_markers_hd,
                                     disk.df_markers_wdd, args)
       IN IF check.raised # None
          THEN /\ raised' = check.raised
               /\ pc' = "aborted"
               /\ UNCHANGED candidates_after_coordinate_check
          ELSE /\ candidates_after_coordinate_check' = check.candidates
               /\ pc' = "append"
               /\ UNCHANGED raised
    /\ UNCHANGED <<call, ret, inputVars, loopVars, frame_offset,
                   candidates_after_timestamp_check, candidates_after_tagged_waggle_check,
                   results, stdout, output>>

\* Lines 191-220.
AppendResult ==
    /\ pc = "append"
    /\ results' = [results EXCEPT ![original_video_name] =
                      Append(@, MatchRecord(manually_annotated_row,
                                            candidates_after_coordinate_check))]
    /\ manually_annotated_rows' = Tail(manually_annotated_rows)
    /\ pc' = "row_loop"
    /\ UNCHANGED <<call, ret, inputVars, video_names, cut_video_rel_path, video_fps,
                   stageVars, stdout, raised, output>>

\* Lines 221-224.
WriteOutput ==
    /\ pc = "write_output"
    /\ output' = [written |-> TRUE, json |-> results]
    /\ pc' = "done"
    /\ UNCHANGED <<call, ret, inputVars, loopVars, stageVars, results, stdout, raised>>

\* Bounds and input sets of the orchestrator specification.
MaxAnnotations == 2
OneSecond == US_PER_SECOND
CutNames == {CutName("cam-1", 0, "1"), CutName("cam-1", 0, "2"), CutName("cam-1", OneSecond, "1")}
OriginalNames == {original_video_name_of(c) : c \in CutNames}
CutVideo == Video(TRUE, TRUE, <<7>>, HD_CAM_FPS)

\* Either source video is found one frame into the recording, or not at all:
\* the first has no frame equal to the clip's, the second is missing.
OriginalVideoSets ==
    { [n \in OriginalNames |-> IF n.start = 0 THEN a ELSE b]
      : a \in {Video(TRUE, TRUE, <<5, 7>>, HD_CAM_FPS), Video(TRUE, TRUE, <<5>>, HD_CAM_FPS)},
        b \in {Video(TRUE, TRUE, <<5, 7>>, 0), Video(FALSE, FALSE, <<>>, 0)} }

CandidateTables ==
    { << Candidate("w1", Timestamp(OneSecond, 0), roi),
         Candidate("w2", Timestamp(t2, 0), <<600, 600>>) >>
      : roi \in {<<600, 600>>, <<0, 0>>}, t2 \in {OneSecond, 2 * OneSecond} }

LabelTables ==
    { l1 \o l2 :
        l1 \in { <<>>,
                 << LabelRecord("w1", "tagged", NA, "waggle", NA) >>,
                 << LabelRecord("w1", "untagged", NA, "waggle", NA) >>,
                 << LabelRecord("w1", "tagged", NA, "waggle", NA),
                    LabelRecord("w1", "tagged", NA, "waggle", NA) >> },
        l2 \in { << LabelRecord("w2", "tagged", NA, "waggle", NA) >>,
                 << LabelRecord("w2", "tagged", NA, "waggle", NA),
                    LabelRecord("w2", "untagged", NA, "waggle", NA) >> } }

MainHdTables ==
    { MarkerSet(Timestamp(10, 0), Triangle, <<0, 0>>),
      MarkerSet(Timestamp(5 * OneSecond, 0), Triangle, <<0, 0>>),
      MarkerSet(Timestamp(10, 0), SubSeq(Triangle, 1, 2), <<0, 0>>) }

Disks ==
    { [cut_videos |-> [c \in CutNames |-> CutVideo], original_videos |-> originals,
       all_candidates |-> cands, csv_df |-> labels, df_markers_hd |-> hd,
       df_markers_wdd |-> MarkerSet(Timestamp(10, 0), Triangle, <<0, 0>>)]
      : originals \in OriginalVideoSets, cands \in CandidateTables,
        labels \in LabelTables, hd \in MainHdTables }

InitMain ==
    /\ pc = "video_loop"
    /\ call = <<>> /\ ret = <<>>
    /\ args \in {Args(HalfSecond, DEFAULT_COORDINATE_TOLERANCE, flag, flag) : flag \in BOOLEAN}
    /\ tunnel_bees_df \in
          { [i \in 1..Len(names) |-> ManualRow(names[i], i, 14, <<600, 600>>)]
            : names \in SeqsUpTo(CutNames, MaxAnnotations) \ {<<>>} }
    /\ disk \in Disks
    /\ video_names = unique([i \in 1..Len(tunnel_bees_df) |-> tunnel_bees_df[i].video_name], <<>>)
    /\ cut_video_rel_path = <<>> /\ manually_annotated_rows = <<>> /\ video_fps = 0
    /\ frame_offset = 0 /\ candidates_after_timestamp_check = <<>>
    /\ candidates_after_tagged_waggle_check = <<>>
    /\ candidates_after_coordinate_check = <<>>
    /\ results = <<>> /\ stdout = <<>> /\ raised = None
    /\ output = [written |-> FALSE, json |-> <<>>]

NextMain ==
    \/ NextVideo
    \/ FrameSync
    \/ TimestampCheck
    \/ TaggedWaggleCheck
    \/ CoordinateCheck
    \/ AppendResult
    \/ WriteOutput

SpecMain == InitMain /\ [][NextMain]_vars

(***************************************************************************)
(* C6, C7, C8 -- the orchestrator                                          *)
(***************************************************************************)
TransformErrors == {"InsufficientMarkers", "MarkerCountMismatch", "DegenerateMarkers"}

\* C6: a recoverable failure (frame synchronisation, a missing marker set, a
\* failed transform fit) never aborts the batch: it becomes a filter miss and
\* the run goes on to write its output.
C6_RecoverableNeverAborts ==
    ~(pc = "aborted" /\ raised \in TransformErrors)

AnnotationsOf(name) ==
    LET OfSource(row) == original_video_name_of(row.video_name) = name
    IN SelectSeq(tunnel_bees_df, OfSource)

\* C7: after a run that does not abort, the output sequence of each source
\* video holds exactly one match record for every manual annotation of that
\* video, in annotation order.
C7_OneRecordPerAnnotation ==
    pc = "done" =>
        \A name \in DOMAIN output.json :
            /\ Len(output.json[name]) = Len(AnnotationsOf(name))
            /\ \A k \in 1..Len(output.json[name]) :
                  output.json[name][k].manual_annotation.waggle_index
                     = AnnotationsOf(name)[k].waggle_index

LabelCount(id) == Cardinality({i \in 1..Len(disk.csv_df) : disk.csv_df[i].waggle_id = id})
HasDuplicateLabels == \E i, j \in 1..Len(disk.csv_df) :
                         i # j /\ disk.csv_df[i].waggle_id = disk.csv_df[j].waggle_id

====
